---- MODULE Spec2Model ----
(***************************************************************************)
(* Cart-to-order pipeline of the ordering application (src/app.py,         *)
(* src/database.py): add_to_cart, remove_from_cart and place_order running *)
(* as concurrent requests over the relational tables cart, orders,         *)
(* order_items, services and menu.                                         *)
(*                                                                         *)
(* Database semantics are those of the configured store (src/config.py,    *)
(* SQLite through SQLAlchemy): a SELECT reads the last committed state, a   *)
(* session's writes become visible together at commit, a session holds the *)
(* single database write lock from its first write statement to its        *)
(* commit or rollback, and an INTEGER PRIMARY KEY of a new row is one more  *)
(* than the largest key in the table.  A request that finds the write lock  *)
(* taken waits for it.                                                     *)
(***************************************************************************)
EXTENDS Integers, Sequences, FiniteSets

\* ---------------------------------------------------------------- bounds
MaxRequests == 3      \* requests received in one behaviour

Procs     == {1, 2}                 \* concurrent requests
Users     == {1, 2}                 \* session['user_id'] values
ItemTypes == {"service", "menu"}    \* item_type form values
ItemIds   == {1}                    \* item_id form values
Prices    == {1, 2}                 \* final_price values
CartIds   == 1..(MaxRequests + 1)   \* cart_id values of the remove_from_cart URL
FormQuantities == {<<>>, <<"1">>, <<"2">>, <<"0">>, <<"abc">>}   \* quantity form field, <<>> when absent

VARIABLES
    service,      \* services table: id -> final_price
    menu,         \* menu table: id -> final_price
    cart,         \* cart table: id -> [user_id, item_type, item_id, quantity]
    orders,       \* orders table: id -> [user_id, total_amount]
    order_items,  \* order_items table: id -> [order_id, item_type, item_id, quantity, price]
    lock,         \* request holding the database write lock, 0 when free
    served,       \* number of requests received so far
    req           \* per request: position, local variables, outcome of its last handler

vars == <<service, menu, cart, orders, order_items, lock, served, req>>
db   == <<cart, orders, order_items>>

\* ---------------------------------------------------------------- helpers
Max(S) == CHOOSE x \in S : \A y \in S : y <= x
Min(S) == CHOOSE x \in S : \A y \in S : x <= y

\* primary key given to a new row of table t
NextId(t) == IF DOMAIN t = {} THEN 1 ELSE Max(DOMAIN t) + 1

Put(t, id, row) == [x \in DOMAIN t \cup {id} |-> IF x = id THEN row ELSE t[x]]
Drop(t, ids)    == [x \in DOMAIN t \ ids |-> t[x]]

\* ids in increasing order
RECURSIVE SortedIds(_)
SortedIds(S) == IF S = {} THEN <<>> ELSE <<Min(S)>> \o SortedIds(S \ {Min(S)})

\* request.form.get('quantity', 1, type=int)
IntLiteral == [s \in {"0", "1", "2"} |-> CASE s = "0" -> 0 [] s = "1" -> 1 [] s = "2" -> 2]
ParseQuantity(field) ==
    IF field = <<>> THEN 1
    ELSE IF field[1] \in DOMAIN IntLiteral THEN IntLiteral[field[1]] ELSE 1

\* Cart.query.filter_by(user_id=u).all(): the user's rows, by id
CartIdsOf(u) == {id \in DOMAIN cart : cart[id].user_id = u}
CartRowsOf(u) ==
    LET ids == SortedIds(CartIdsOf(u))
    IN  [k \in 1..Len(ids) |-> [id        |-> ids[k],
                                item_type |-> cart[ids[k]].item_type,
                                item_id   |-> cart[ids[k]].item_id,
                                quantity  |-> cart[ids[k]].quantity]]

\* Cart.query.filter_by(user_id, item_type, item_id).first(): <<>> or <<row>>
ExistingItem(u, t, i) ==
    LET ids == {id \in CartIdsOf(u) : cart[id].item_type = t /\ cart[id].item_id = i}
    IN  IF ids = {} THEN <<>>
        ELSE <<[id |-> Min(ids), quantity |-> cart[Min(ids)].quantity]>>

\* SELECT of the services / menu row with primary key i: <<>> or <<final_price>>
Resolve(t, i) ==
    IF t = "service"
    THEN IF i \in DOMAIN service THEN <<service[i]>> ELSE <<>>
    ELSE IF i \in DOMAIN menu THEN <<menu[i]>> ELSE <<>>

Idle == [pc |-> "idle", user_id |-> 0, item_type |-> "", item_id |-> 0, quantity |-> 0,
         existing_item |-> 0, cart_item |-> 0, cart_items |-> <<>>, k |-> 0,
         item_detail |-> <<>>, total_amount |-> 0, order_items |-> <<>>,
         order_id |-> 0, result |-> ""]

\* a new request takes the first free request slot
FreeSlot(p) == req[p].pc = "idle" /\ \A q \in Procs : q < p => req[q].pc # "idle"

Finish(p, res) == req' = [req EXCEPT ![p] = [Idle EXCEPT !.result = res]]

\* ---------------------------------------------------------------- state
\* carts the database may hold at the start: none, or one line left by an
\* earlier add_to_cart
InitCarts == {<<>>, <<[user_id |-> 1, item_type |-> "service", item_id |-> 1, quantity |-> 1]>>}

Init ==
    /\ service \in [ItemIds -> Prices]
    /\ menu \in [ItemIds -> Prices]
    /\ cart \in InitCarts
    /\ orders = <<>>
    /\ order_items = <<>>
    /\ lock = 0
    /\ served = 0
    /\ req = [p \in Procs |-> Idle]

\* ---------------------------------------------------------------- add_to_cart
\* line 191: existing_item.quantity += quantity
AddQuantity(existing_quantity, quantity) == existing_quantity + quantity

\* lines 179-199: parse the form, look the line up, change or build the object.
\* An existing_item whose quantity is set to the value it was loaded with is
\* not modified: the commit of line 201 then has nothing to write and the
\* request succeeds without touching the database.
AddToCartBegin(p, u, t, i, field) ==
    LET quantity == ParseQuantity(field)
        existing_item == ExistingItem(u, t, i)
    IN  /\ FreeSlot(p)
        /\ req' = [req EXCEPT ![p] =
             IF existing_item # <<>>
             THEN IF AddQuantity(existing_item[1].quantity, quantity) = existing_item[1].quantity
                  THEN [Idle EXCEPT !.result = "ok"]
                  ELSE [Idle EXCEPT !.pc = "add_update", !.existing_item = existing_item[1].id,
                               !.quantity = AddQuantity(existing_item[1].quantity, quantity)]
             ELSE [Idle EXCEPT !.pc = "add_insert", !.user_id = u, !.item_type = t,
                               !.item_id = i, !.quantity = quantity]]
        /\ served < MaxRequests /\ served' = served + 1
        /\ UNCHANGED <<service, menu, cart, orders, order_items, lock>>

\* line 201, existing_item modified: UPDATE cart SET quantity = ... WHERE id = ...
\* (no row with that id any more: StaleDataError, the request fails)
AddToCartUpdate(p) ==
    /\ req[p].pc = "add_update"
    /\ lock = 0
    /\ IF req[p].existing_item \in DOMAIN cart
       THEN /\ cart' = [cart EXCEPT ![req[p].existing_item].quantity = req[p].quantity]
            /\ Finish(p, "ok")
       ELSE /\ cart' = cart
            /\ Finish(p, "error")
    /\ UNCHANGED <<service, menu, orders, order_items, lock, served>>

\* line 201, no existing_item: INSERT INTO cart
AddToCartInsert(p) ==
    /\ req[p].pc = "add_insert"
    /\ lock = 0
    /\ cart' = Put(cart, NextId(cart),
                   [user_id |-> req[p].user_id, item_type |-> req[p].item_type,
                    item_id |-> req[p].item_id, quantity |-> req[p].quantity])
    /\ Finish(p, "ok")
    /\ UNCHANGED <<service, menu, orders, order_items, lock, served>>

\* ---------------------------------------------------------------- remove_from_cart
\* line 242: the caller may delete the loaded row
Owns(u, row) == row.user_id = u

\* lines 239-246: get_or_404, ownership check
RemoveFromCartBegin(p, u, cart_id) ==
    /\ FreeSlot(p)
    /\ IF cart_id \notin DOMAIN cart
       THEN Finish(p, "NotFound")
       ELSE IF ~Owns(u, cart[cart_id])
       THEN Finish(p, "Unauthorized")
       ELSE /\ req' = [req EXCEPT ![p] = [Idle EXCEPT
                        !.pc = "rm_commit", !.user_id = u, !.cart_item = cart_id]]
    /\ served < MaxRequests /\ served' = served + 1
    /\ UNCHANGED <<service, menu, cart, orders, order_items, lock>>

\* line 247: DELETE FROM cart WHERE id = ...
RemoveFromCartCommit(p) ==
    /\ req[p].pc = "rm_commit"
    /\ lock = 0
    /\ cart' = Drop(cart, {req[p].cart_item})
    /\ Finish(p, "ok")
    /\ UNCHANGED <<service, menu, orders, order_items, lock, served>>

\* ---------------------------------------------------------------- place_order
\* mutant of LineTotal: the quantity is left out of the line total
LineTotal_NoQuantity(final_price, quantity) == final_price

\* line 302: item_detail.final_price * item.quantity
LineTotal(final_price, quantity) == final_price * quantity

\* lines 297 / 299, Query.get: the object of that class and primary key which
\* the session still holds (the one item_detail refers to), else the row of the
\* table; <<>> or <<[item_type, id, final_price]>>
QueryGet(item_detail, t, i) ==
    IF item_detail # <<>> /\ item_detail[1].item_type = t /\ item_detail[1].id = i
    THEN item_detail
    ELSE IF Resolve(t, i) = <<>> THEN <<>>
         ELSE <<[item_type |-> t, id |-> i, final_price |-> Resolve(t, i)[1]]>>

\* line 295, for item in cart_items: position after k - 1 items are done
AfterItem(cart_items, k) == IF k <= Len(cart_items) THEN "po_loop" ELSE "po_flush"

\* mutant of EmptyCart: the empty-cart check is missing
EmptyCart_Never(cart_items) == FALSE

\* line 287: if not cart_items
EmptyCart(cart_items) == cart_items = <<>>

\* lines 280-293: read the cart; an empty cart ends the request
PlaceOrderBegin(p, u) ==
    LET cart_items == CartRowsOf(u)
    IN  /\ FreeSlot(p)
        /\ IF EmptyCart(cart_items)
           THEN Finish(p, "EmptyCart")
           ELSE /\ req' = [req EXCEPT ![p] = [Idle EXCEPT
                            !.pc = AfterItem(cart_items, 1), !.user_id = u,
                            !.cart_items = cart_items, !.k = 1]]
        /\ served < MaxRequests /\ served' = served + 1
        /\ UNCHANGED <<service, menu, cart, orders, order_items, lock>>

\* lines 295-308: one iteration of the loop, for cart_items[k]: look the item
\* up; when found, add its line total and build its order line
PlaceOrderLoop(p) ==
    LET item == req[p].cart_items[req[p].k]
        item_detail == QueryGet(req[p].item_detail, item.item_type, item.item_id)
    IN  /\ req[p].pc = "po_loop"
        /\ req' = [req EXCEPT
              ![p].item_detail = item_detail,
              ![p].total_amount =
                  IF item_detail # <<>>
                  THEN @ + LineTotal(item_detail[1].final_price, item.quantity)
                  ELSE @,
              ![p].order_items =
                  IF item_detail # <<>>
                  THEN Append(@, [item_type |-> item.item_type,
                                  item_id   |-> item.item_id,
                                  quantity  |-> item.quantity,
                                  price     |-> item_detail[1].final_price])
                  ELSE @,
              ![p].k = @ + 1,
              ![p].pc = AfterItem(req[p].cart_items, req[p].k + 1)]
        /\ UNCHANGED <<service, menu, cart, orders, order_items, lock, served>>

\* mutant of PlaceOrderFlush: the order row is committed where it is flushed
PlaceOrderFlush_Commits(p, form_ok) ==
    /\ req[p].pc = "po_flush"
    /\ lock = 0
    /\ IF form_ok
       THEN /\ lock' = p
            /\ req' = [req EXCEPT ![p].pc = "po_commit", ![p].order_id = NextId(orders)]
            /\ orders' = Put(orders, NextId(orders),
                             [user_id |-> req[p].user_id,
                              total_amount |-> req[p].total_amount])
       ELSE /\ lock' = lock
            /\ orders' = orders
            /\ Finish(p, "error")
    /\ UNCHANGED <<service, menu, cart, order_items, served>>

\* lines 311-318: INSERT INTO orders opens the write transaction; a missing
\* payment_mode or delivery_location violates NOT NULL and fails the request
PlaceOrderFlush(p, form_ok) ==
    /\ req[p].pc = "po_flush"
    /\ lock = 0
    /\ IF form_ok
       THEN /\ lock' = p
            /\ req' = [req EXCEPT ![p].pc = "po_commit", ![p].order_id = NextId(orders)]
       ELSE /\ lock' = lock
            /\ Finish(p, "error")
    /\ UNCHANGED <<service, menu, cart, orders, order_items, served>>

\* mutant of ItemsInserted: the lines are stored under the keys 1..n, over the
\* lines of earlier orders
ItemsInserted_Renumbered(p) ==
    LET n == Len(req[p].order_items)
    IN  [id \in DOMAIN order_items \cup 1..n |->
           IF id > n THEN order_items[id]
           ELSE [order_id  |-> req[p].order_id,
                 item_type |-> req[p].order_items[id].item_type,
                 item_id   |-> req[p].order_items[id].item_id,
                 quantity  |-> req[p].order_items[id].quantity,
                 price     |-> req[p].order_items[id].price]]

\* lines 321-329: rows of order_items after the request's lines are inserted
ItemsInserted(p) ==
    LET first == NextId(order_items)
        n == Len(req[p].order_items)
    IN  [id \in DOMAIN order_items \cup first..(first + n - 1) |->
           IF id \in DOMAIN order_items THEN order_items[id]
           ELSE [order_id  |-> req[p].order_id,
                 item_type |-> req[p].order_items[id - first + 1].item_type,
                 item_id   |-> req[p].order_items[id - first + 1].item_id,
                 quantity  |-> req[p].order_items[id - first + 1].quantity,
                 price     |-> req[p].order_items[id - first + 1].price]]

\* mutant of CartCleared: only the lines that went into the order are deleted
CartCleared_ResolvedOnly(u) ==
    Drop(cart, {id \in CartIdsOf(u) : Resolve(cart[id].item_type, cart[id].item_id) # <<>>})

\* line 332: Cart.query.filter_by(user_id=user_id).delete()
CartCleared(u) == Drop(cart, CartIdsOf(u))

\* lines 321-334: insert the order items, clear the cart, commit; the order, its
\* items and the cart deletion become visible together
PlaceOrderCommit(p) ==
    /\ req[p].pc = "po_commit"
    /\ lock = p
    /\ orders' = Put(orders, req[p].order_id,
                     [user_id |-> req[p].user_id, total_amount |-> req[p].total_amount])
    /\ order_items' = ItemsInserted(p)
    /\ cart' = CartCleared(req[p].user_id)
    /\ lock' = 0
    /\ Finish(p, "ok")
    /\ UNCHANGED <<service, menu, served>>

\* lines 321-334: a statement of the open transaction raises; the request ends
\* with an error and the session is rolled back
PlaceOrderFail(p) ==
    /\ req[p].pc = "po_commit"
    /\ lock = p
    /\ lock' = 0
    /\ Finish(p, "error")
    /\ UNCHANGED <<service, menu, cart, orders, order_items, served>>

\* ---------------------------------------------------------------- catalog
\* the catalog is maintained outside this application
SetFinalPrice(t, i, price) ==
    /\ IF t = "service"
       THEN /\ i \in DOMAIN service /\ service[i] # price
            /\ service' = [service EXCEPT ![i] = price] /\ menu' = menu
       ELSE /\ i \in DOMAIN menu /\ menu[i] # price
            /\ menu' = [menu EXCEPT ![i] = price] /\ service' = service
    /\ UNCHANGED <<cart, orders, order_items, lock, served, req>>

DeleteItem(t, i) ==
    /\ IF t = "service"
       THEN /\ i \in DOMAIN service
            /\ service' = Drop(service, {i}) /\ menu' = menu
       ELSE /\ i \in DOMAIN menu
            /\ menu' = Drop(menu, {i}) /\ service' = service
    /\ UNCHANGED <<cart, orders, order_items, lock, served, req>>

Next ==
    \/ \E p \in Procs, u \in Users, t \in ItemTypes, i \in ItemIds, f \in FormQuantities :
           AddToCartBegin(p, u, t, i, f)
    \/ \E p \in Procs : AddToCartUpdate(p)
    \/ \E p \in Procs : AddToCartInsert(p)
    \/ \E p \in Procs, u \in Users, c \in CartIds : RemoveFromCartBegin(p, u, c)
    \/ \E p \in Procs : RemoveFromCartCommit(p)
    \/ \E p \in Procs, u \in Users : PlaceOrderBegin(p, u)
    \/ \E p \in Procs : PlaceOrderLoop(p)
    \/ \E p \in Procs, ok \in BOOLEAN : PlaceOrderFlush(p, ok)
    \/ \E p \in Procs : PlaceOrderCommit(p)
    \/ \E p \in Procs : PlaceOrderFail(p)
    \/ \E t \in ItemTypes, i \in ItemIds, price \in Prices : SetFinalPrice(t, i, price)
    \/ \E t \in ItemTypes, i \in ItemIds : DeleteItem(t, i)

Spec == Init /\ [][Next]_vars

\* ================================================================ properties
\* ids of the order_items rows of order o
OrderLineIds(o) == {id \in DOMAIN order_items : order_items[id].order_id = o}

RECURSIVE SumLines(_)
SumLines(ids) ==
    IF ids = {} THEN 0
    ELSE LET id == Min(ids)
         IN  order_items[id].quantity * order_items[id].price + SumLines(ids \ {id})

\* C1: every order's total_amount equals the sum, over its order_items rows, of
\* quantity * price, whatever cart operations, orders and catalog changes
\* preceded or followed it.
C1_TotalIsSumOfLines ==
    \A o \in DOMAIN orders : orders[o].total_amount = SumLines(OrderLineIds(o))

\* an order of two lines with different prices, one of a quantity above 1, whose
\* catalog items have since changed price or been deleted
C1_Witness ==
    \E o \in DOMAIN orders :
        /\ Cardinality(OrderLineIds(o)) = 2
        /\ \E a, b \in OrderLineIds(o) :
              /\ order_items[a].price # order_items[b].price
              /\ order_items[a].quantity > 1
        /\ \E a \in OrderLineIds(o) :
              Resolve(order_items[a].item_type, order_items[a].item_id)
                  # <<order_items[a].price>>

\* C2 (as claimed): the cart never holds two lines with the same
\* (user_id, item_type, item_id).
C2_OneLinePerKey ==
    \A a, b \in DOMAIN cart :
        (/\ cart[a].user_id = cart[b].user_id
         /\ cart[a].item_type = cart[b].item_type
         /\ cart[a].item_id = cart[b].item_id) => a = b

\* C4 (as claimed): every cart line has quantity >= 1.
C4_QuantityPositive == \A id \in DOMAIN cart : cart[id].quantity >= 1

InCheckout(p) == req[p].pc \in {"po_loop", "po_flush", "po_commit"}

\* C3 (as claimed): two place_order requests of one user are never both between
\* their read of the cart and their commit.
C3_CheckoutMutualExclusion ==
    \A p, q \in Procs :
        (p # q /\ InCheckout(p) /\ InCheckout(q)) => req[p].user_id # req[q].user_id

\* the final_price place_order reads for cart_items[k]: that of the catalog row,
\* or the one it has just read for the same item on the line before; <<>> when
\* there is none
PriceRead(p) ==
    LET item == req[p].cart_items[req[p].k]
        held == req[p].item_detail
    IN  IF held # <<>> /\ held[1].item_type = item.item_type /\ held[1].id = item.item_id
        THEN <<held[1].final_price>>
        ELSE Resolve(item.item_type, item.item_id)

\* C5: a step never changes or removes an existing orders row or order_items
\* row and never adds a line to an existing order; the price of an order line
\* is the final_price the request read for the item while placing the order,
\* it is not changed while the request goes on, and it is stored as read.
C5_Step ==
    /\ \A o \in DOMAIN orders : o \in DOMAIN orders' /\ orders'[o] = orders[o]
    /\ \A id \in DOMAIN order_items :
          id \in DOMAIN order_items' /\ order_items'[id] = order_items[id]
    /\ \A id \in DOMAIN order_items' \ DOMAIN order_items :
          order_items'[id].order_id \notin DOMAIN orders
    /\ \A p \in Procs :
          PlaceOrderLoop(p) =>
              /\ SubSeq(req'[p].order_items, 1, Len(req[p].order_items)) = req[p].order_items
              /\ \A k \in (Len(req[p].order_items) + 1)..Len(req'[p].order_items) :
                    <<req'[p].order_items[k].price>> = PriceRead(p)
    /\ \A p \in Procs :
          (InCheckout(p) /\ InCheckout(p)' /\ ~PlaceOrderLoop(p)) =>
              req'[p].order_items = req[p].order_items
    /\ \A p \in Procs :
          PlaceOrderCommit(p) =>
              LET new == SortedIds(DOMAIN order_items' \ DOMAIN order_items)
              IN  /\ Len(new) = Len(req[p].order_items)
                  /\ \A k \in 1..Len(new) :
                        order_items'[new[k]].price = req[p].order_items[k].price
C5_SnapshotImmutable == [][C5_Step]_vars

\* an order line whose catalog item has changed price or been deleted since,
\* next to a later order of the same item at the new price
C5_Witness ==
    /\ Cardinality(DOMAIN orders) = 2
    /\ \E a, b \in DOMAIN order_items :
          /\ order_items[a].order_id # order_items[b].order_id
          /\ order_items[a].item_type = order_items[b].item_type
          /\ order_items[a].price # order_items[b].price

\* C6: place_order of a user without cart lines ends with EmptyCart and changes
\* neither the tables nor the write lock.
C6_Step ==
    \A p \in Procs, u \in Users :
        (PlaceOrderBegin(p, u) /\ CartIdsOf(u) = {}) =>
            /\ req'[p].pc = "idle"
            /\ req'[p].result = "EmptyCart"
            /\ UNCHANGED <<service, menu, cart, orders, order_items, lock>>
C6_EmptyCartNoEffect == [][C6_Step]_vars

\* an EmptyCart outcome while another user's cart holds a line
C6_Witness ==
    /\ \E p \in Procs : req[p].result = "EmptyCart"
    /\ DOMAIN cart # {}
    /\ orders = <<>>

\* the cart line resolves in the catalog
Resolves(row) == Resolve(row.item_type, row.item_id) # <<>>

\* the order line for cart_items[k]: none when there is no final_price to read
ExpectedLines(p) ==
    LET item == req[p].cart_items[req[p].k]
    IN  IF PriceRead(p) = <<>> THEN <<>>
        ELSE <<[item_type |-> item.item_type, item_id |-> item.item_id,
                quantity  |-> item.quantity, price |-> PriceRead(p)[1]]>>

RECURSIVE SeqTotal(_)
SeqTotal(lines) ==
    IF lines = <<>> THEN 0
    ELSE Head(lines).quantity * Head(lines).price + SeqTotal(Tail(lines))

\* C7: place_order on a non-empty cart takes the cart lines of the user and
\* goes through them in order; a line whose item resolves gives one order line
\* (same item_type, item_id and quantity, price the final_price read), a line
\* whose item does not resolve gives none; the total is that of the lines built,
\* and the commit adds exactly one order with exactly these lines and deletes
\* every cart line of the user, leaving the other users' lines alone.
C7_Step ==
    /\ \A p \in Procs, u \in Users :
          (PlaceOrderBegin(p, u) /\ CartIdsOf(u) # {}) =>
              /\ req'[p].pc = "po_loop"
              /\ req'[p].cart_items = CartRowsOf(u)
              /\ req'[p].order_items = <<>>
              /\ req'[p].total_amount = 0
    /\ \A p \in Procs :
          PlaceOrderLoop(p) =>
              /\ req'[p].order_items = req[p].order_items \o ExpectedLines(p)
              /\ req'[p].total_amount = SeqTotal(req'[p].order_items)
                  /\ req'[p].cart_items = req[p].cart_items
                  /\ req'[p].k = req[p].k + 1
                  /\ (req'[p].pc = "po_flush") = (req[p].k = Len(req[p].cart_items))
    /\ \A p \in Procs :
          PlaceOrderCommit(p) =>
              LET new   == DOMAIN orders' \ DOMAIN orders
                  lines == SortedIds(DOMAIN order_items' \ DOMAIN order_items)
                  u     == req[p].user_id
              IN  /\ Cardinality(new) = 1
                  /\ \A o \in new :
                        /\ orders'[o] = [user_id |-> u,
                                         total_amount |-> req[p].total_amount]
                        /\ \A k \in 1..Len(lines) : order_items'[lines[k]].order_id = o
                  /\ Len(lines) = Len(req[p].order_items)
                  /\ \A k \in 1..Len(lines) :
                        /\ order_items'[lines[k]].item_type = req[p].order_items[k].item_type
                        /\ order_items'[lines[k]].item_id = req[p].order_items[k].item_id
                        /\ order_items'[lines[k]].quantity = req[p].order_items[k].quantity
                        /\ order_items'[lines[k]].price = req[p].order_items[k].price
                  /\ \A id \in DOMAIN cart' : cart'[id].user_id # u
                  /\ \A id \in DOMAIN cart :
                        cart[id].user_id # u => id \in DOMAIN cart' /\ cart'[id] = cart[id]
                  /\ req'[p].result = "ok"
C7_OrderFromResolvedLines == [][C7_Step]_vars

\* an order without lines and of total 0 (its cart line did not resolve and was
\* dropped), with the user's cart empty
C7_Witness ==
    \E o \in DOMAIN orders :
        /\ CartIdsOf(orders[o].user_id) = {}
        /\ OrderLineIds(o) = {}
        /\ orders[o].total_amount = 0

\* C8 (as claimed): remove_from_cart by a user who does not own the addressed
\* line ends with Unauthorized and changes nothing; otherwise the delete removes
\* the addressed line only, and that line belongs to the caller.
C8_Step ==
    /\ \A p \in Procs, u \in Users, c \in DOMAIN cart :
          (RemoveFromCartBegin(p, u, c) /\ cart[c].user_id # u) =>
              /\ req'[p].pc = "idle"
              /\ req'[p].result = "Unauthorized"
              /\ UNCHANGED <<service, menu, cart, orders, order_items, lock>>
    /\ \A p \in Procs :
          RemoveFromCartCommit(p) =>
              /\ DOMAIN cart \ DOMAIN cart' \subseteq {req[p].cart_item}
              /\ \A id \in DOMAIN cart' : id \in DOMAIN cart /\ cart'[id] = cart[id]
              /\ \A id \in DOMAIN cart \ DOMAIN cart' : cart[id].user_id = req[p].user_id
              /\ UNCHANGED <<service, menu, orders, order_items, lock>>
C8_RemoveOnlyOwnLine == [][C8_Step]_vars

\* the request completes its write transaction: its order, every line it built
\* and the deletion of all cart lines of its user appear in this one step
FullCommit(p) ==
    /\ req[p].pc = "po_commit"
    /\ req'[p].result = "ok"
    /\ req[p].order_id \in DOMAIN orders' \ DOMAIN orders
    /\ Cardinality({id \in DOMAIN order_items' \ DOMAIN order_items :
                      order_items'[id].order_id = req[p].order_id})
          = Len(req[p].order_items)
    /\ \A id \in DOMAIN cart' : cart'[id].user_id # req[p].user_id

\* C9: the orders and order_items tables change only in a step that completes a
\* place_order, and that step shows the order, all its lines and the cleared
\* cart together; every other step of a place_order, a failing one included,
\* leaves cart, orders and order_items as they were.
C9_Step ==
    /\ (orders' # orders \/ order_items' # order_items) => \E p \in Procs : FullCommit(p)
    /\ \A p \in Procs :
          (InCheckout(p) /\ req'[p] # req[p]) => (UNCHANGED db \/ FullCommit(p))
    /\ \A p \in Procs :
          (InCheckout(p) /\ req'[p].pc = "idle" /\ req'[p].result = "error") => UNCHANGED db
C9_AllOrNothing == [][C9_Step]_vars

\* a request inside its write transaction, its order inserted but not visible,
\* next to an order committed earlier
C9_Witness ==
    /\ lock # 0
    /\ req[lock].pc = "po_commit"
    /\ req[lock].order_id \notin DOMAIN orders
    /\ req[lock].order_items # <<>>
    /\ orders # <<>>

\* C10 (as claimed): when place_order clears the cart, every line it deletes
\* whose item resolves is a line of the order, with the same quantity.
C10_NoCartContentLost ==
    \A p \in Procs :
        req[p].pc = "po_commit" =>
            \A id \in CartIdsOf(req[p].user_id) :
                Resolves(cart[id]) =>
                    \E k \in 1..Len(req[p].order_items) :
                        /\ req[p].order_items[k].item_type = cart[id].item_type
                        /\ req[p].order_items[k].item_id = cart[id].item_id
                        /\ req[p].order_items[k].quantity = cart[id].quantity
====
